---------------------------- MODULE Spec2Model ----------------------------
(***************************************************************************)
(* A model of the AI service of ai_morpheus (src/ai.py), of the streaming  *)
(* path through Controller (src/controller.py) and of the endpoint         *)
(* /model/streaming_response (src/main.py).                                *)
(*                                                                         *)
(* Part 1: the sandboxed executor SandboxedPythonREPLRun.  A snippet is    *)
(* the pair (does it parse, its syntax tree); exec is a small interpreter  *)
(* over the tree that acts on the scratch mapping _locals, on the pyplot   *)
(* figure registry and on the world outside the process.                   *)
(* Part 2: the agent loop of AI.get_stream_response and                    *)
(* AI.get_stream_response_no_advanced, one control flow per request.       *)
(***************************************************************************)
EXTENDS Integers, Sequences, FiniteSets, TLC

VARIABLES
    _locals,    \* SandboxedPythonREPLRun._locals: name -> value
    figures,    \* pyplot's figure registry: figure number -> artists drawn
    effects,    \* what snippets did to the world outside the sandbox
    lastRun,    \* history: the last call of run (snippet, outcome, state before)
    pc,         \* per request: where its control flow stands
    request,    \* per request: the body and credential the endpoint received
    handler,    \* per request: the AI method Controller dispatched to
    tools,      \* per request: the tool list given to create_react_agent
    state,      \* per request: the agent's message state (the model's context)
    pending,    \* per request: tool calls of the last model message, not yet run
    deltas,     \* per request: the strings the AI generator yielded
    frames,     \* per request: the frames event_stream yielded
    memory,     \* AI.memory (MemorySaver): thread_id -> stored messages
    turns,      \* per request: how often the model was invoked
    toolLog,    \* history: every tool invocation (request, tool name)
    llmCalls,   \* model invocations made so far, over all requests
    proposed,   \* tool calls the model proposed so far, over all requests
    raised,     \* history, per request: the exception its except clause caught
    service,    \* the AI object: being constructed, failed, or constructed
    netLog,     \* history: the direct calls of the search and fetch tools
    response,   \* per request: what Controller.get_response gave its caller
    pool        \* per request: the tool calls its tools node has started and finished

execVars == <<_locals, figures, effects, lastRun>>
reqVars == <<pc, request, handler, tools, state, pending, deltas, frames,
             memory, turns, toolLog, llmCalls, proposed, raised>>
vars == <<_locals, figures, effects, lastRun, pc, request, handler, tools,
          state, pending, deltas, frames, memory, turns, toolLog, llmCalls,
          proposed, raised, service, netLog, response, pool>>
toolVars == <<service, netLog, pool>>

-----------------------------------------------------------------------------
(* Bounds of the model *)

\* statements per snippet
MaxStmts == 1
\* model invocations over all requests
MaxLlmCalls == 3
\* tool calls proposed over all requests
MaxProposed == 2
\* direct calls of the search and fetch tools
MaxNetCalls == 2

-----------------------------------------------------------------------------
(* Syntax trees (the ast module's node classes the code looks at) *)

Name(id) == [type |-> "Name", id |-> id]
Constant(v) == [type |-> "Constant", value |-> v]
Attribute(value, attr) == [type |-> "Attribute", value |-> value, attr |-> attr]
Call(func, args) == [type |-> "Call", func |-> func, args |-> args]
BinOp(left, right) == [type |-> "BinOp", left |-> left, right |-> right]
Assign(target, value) == [type |-> "Assign", target |-> target, value |-> value]
Expr(value) == [type |-> "Expr", value |-> value]
Import(name) == [type |-> "Import", name |-> name]
Module(body) == [type |-> "Module", body |-> body]

\* Python values
IntV(n) == [kind |-> "int", n |-> n]
StrV(s) == [kind |-> "str", s |-> s]
NoneV == [kind |-> "NoneType"]
BoolV(b) == [kind |-> "bool", b |-> b]
ListV(items) == [kind |-> "list", items |-> items]
DictV(fields) == [kind |-> "dict", fields |-> fields]
ModuleV(m) == [kind |-> "module", module |-> m]
FuncV(f) == [kind |-> "function", qualname |-> f]

SeqRange(s) == {s[i] : i \in DOMAIN s}

\* ast.iter_child_nodes
ChildNodes(node) ==
    CASE node.type = "Module" -> SeqRange(node.body)
      [] node.type = "Expr" -> {node.value}
      [] node.type = "Assign" -> {node.value}
      [] node.type = "Call" -> {node.func} \cup SeqRange(node.args)
      [] node.type = "Attribute" -> {node.value}
      [] node.type = "BinOp" -> {node.left, node.right}
      [] OTHER -> {}

RECURSIVE WalkFrom(_)
WalkFrom(nodes) ==
    IF nodes = {} THEN {}
    ELSE nodes \cup WalkFrom(UNION {ChildNodes(n) : n \in nodes})

\* ast.walk: the node and all its descendants
Walk(tree) == WalkFrom({tree})

DenyList == {"open", "file", "execfile", "eval", "exec", "__import__"}

\* a plausible bug: the Attribute branch is missing
CallIsDeniedNameOnly(node) ==
    /\ node.type = "Call"
    /\ node.func.type = "Name" /\ node.func.id \in DenyList

\* the body of the loop of _is_safe_code: does this node make it return False
CallIsDenied(node) ==
    /\ node.type = "Call"
    /\ \/ node.func.type = "Name" /\ node.func.id \in DenyList
       \/ node.func.type = "Attribute" /\ node.func.attr \in DenyList

\* a plausible bug: every mention of a deny-listed name is refused, called or not
IsSafeCodeNoMention(code) ==
    IF ~code.parses THEN FALSE
    ELSE \A node \in Walk(code.tree) :
            /\ ~CallIsDenied(node)
            /\ ~(node.type = "Name" /\ node.id \in DenyList)

\* ast.parse raises SyntaxError exactly for a snippet that does not parse
_is_safe_code(code) ==
    IF ~code.parses THEN FALSE
    ELSE \A node \in Walk(code.tree) : ~CallIsDenied(node)

-----------------------------------------------------------------------------
(* exec(query, self._globals, self._locals) *)

\* self._globals, as set in __init__
_globals == [n \in {"plt", "matplotlib", "math", "io", "base64"} |-> ModuleV(n)]

\* exec adds __builtins__ to the globals it is given: the builtins are in scope
Builtins == {"open", "eval", "exec", "__import__", "print"}

\* the modules an import statement (or __import__) finds
Importable == {"os", "io", "math"}

\* the callables of the modules that the snippets of the model use
ModuleFunctions == {"plt.plot", "io.open", "os.system"}

\* the sandbox state a snippet acts on
SandboxState == [locals |-> _locals, figures |-> figures, effects |-> effects]

Ok(st, val) == [st |-> st, val |-> val, exc |-> ""]
Exc(st, e) == [st |-> st, val |-> NoneV, exc |-> e]

\* name resolution of code run by exec: locals, globals, builtins
LoadName(id, st) ==
    IF id \in DOMAIN st.locals THEN Ok(st, st.locals[id])
    ELSE IF id \in DOMAIN _globals THEN Ok(st, _globals[id])
    ELSE IF id \in Builtins THEN Ok(st, FuncV(id))
    ELSE Exc(st, "NameError")

GetAttr(v, attr, st) ==
    IF v.kind = "module" /\ (v.module \o "." \o attr) \in ModuleFunctions
    THEN Ok(st, FuncV(v.module \o "." \o attr))
    ELSE Exc(st, "AttributeError")

\* what a figure shows: nothing, or the artists drawn on it
Blank == "blank"
Drawn == "drawn"

\* pyplot: plot draws on the current figure and makes figure 1 when there is none
Plot(st) == [st EXCEPT !.figures = [n \in {1} |-> Drawn]]

\* calling a value with the (already evaluated) arguments
Apply(f, args, st) ==
    IF f.kind # "function" THEN Exc(st, "TypeError")
    ELSE CASE f.qualname \in {"open", "io.open"} ->
                Ok([st EXCEPT !.effects = @ \cup {"file opened"}], NoneV)
           [] f.qualname = "os.system" ->
                Ok([st EXCEPT !.effects = @ \cup {"process spawned"}], IntV(0))
           [] f.qualname \in {"eval", "exec"} ->
                Ok([st EXCEPT !.effects = @ \cup {"dynamic code run"}], NoneV)
           [] f.qualname = "__import__" ->
                IF Len(args) = 1 /\ args[1].kind = "str" /\ args[1].s \in Importable
                THEN Ok(st, ModuleV(args[1].s))
                ELSE Exc(st, "ImportError")
           [] f.qualname = "plt.plot" -> Ok(Plot(st), NoneV)
           [] OTHER -> Ok(st, NoneV)

RECURSIVE Eval(_, _)
RECURSIVE EvalArgs(_, _, _, _)

\* the arguments of a call, left to right
EvalArgs(args, i, acc, st) ==
    IF i > Len(args) THEN [st |-> st, vals |-> acc, exc |-> ""]
    ELSE LET r == Eval(args[i], st)
         IN IF r.exc # "" THEN [st |-> r.st, vals |-> acc, exc |-> r.exc]
            ELSE EvalArgs(args, i + 1, Append(acc, r.val), r.st)

Eval(e, st) ==
    CASE e.type = "Constant" -> Ok(st, e.value)
      [] e.type = "Name" -> LoadName(e.id, st)
      [] e.type = "Attribute" ->
            LET v == Eval(e.value, st)
            IN IF v.exc # "" THEN v ELSE GetAttr(v.val, e.attr, v.st)
      [] e.type = "BinOp" ->
            LET l == Eval(e.left, st)
            IN IF l.exc # "" THEN l
               ELSE LET r == Eval(e.right, l.st)
                    IN IF r.exc # "" THEN r
                       ELSE IF l.val.kind = "int" /\ r.val.kind = "int"
                            THEN Ok(r.st, IntV(l.val.n + r.val.n))
                            ELSE Exc(r.st, "TypeError")
      [] e.type = "Call" ->
            LET f == Eval(e.func, st)
            IN IF f.exc # "" THEN f
               ELSE LET a == EvalArgs(e.args, 1, <<>>, f.st)
                    IN IF a.exc # "" THEN Exc(a.st, a.exc)
                       ELSE Apply(f.val, a.vals, a.st)

Bind(locals, name, val) ==
    [n \in DOMAIN locals \cup {name} |-> IF n = name THEN val ELSE locals[n]]

\* one statement; every top-level store goes to the locals mapping
ExecStmt(s, st) ==
    CASE s.type = "Expr" -> Eval(s.value, st)
      [] s.type = "Assign" ->
            LET v == Eval(s.value, st)
            IN IF v.exc # "" THEN v
               ELSE Ok([v.st EXCEPT !.locals = Bind(@, s.target, v.val)], NoneV)
      [] s.type = "Import" ->
            IF s.name \in Importable
            THEN Ok([st EXCEPT !.locals = Bind(@, s.name, ModuleV(s.name))], NoneV)
            ELSE Exc(st, "ImportError")

RECURSIVE ExecFrom(_, _, _)
ExecFrom(body, i, st) ==
    IF i > Len(body) THEN Ok(st, NoneV)
    ELSE LET r == ExecStmt(body[i], st)
         IN IF r.exc # "" THEN r ELSE ExecFrom(body, i + 1, r.st)

\* a plausible variant: every call starts from an empty scratch mapping
ExecFresh(code, st) == ExecFrom(code.tree.body, 1, [st EXCEPT !.locals = <<>>])

\* exec: the statements in order, stopping at the first that raises; what the
\* earlier statements did stays done
Exec(code, st) == ExecFrom(code.tree.body, 1, st)


-----------------------------------------------------------------------------
(* SandboxedPythonREPLRun.run *)

\* str(v) for the values of the model
Str(v) ==
    CASE v.kind = "int" -> ToString(v.n)
      [] v.kind = "str" -> v.s
      [] v.kind = "NoneType" -> "None"
      [] v.kind = "bool" -> IF v.b THEN "True" ELSE "False"
      [] v.kind = "module" -> "<module '" \o v.module \o "'>"
      [] v.kind = "function" -> "<function " \o v.qualname \o ">"

\* a plausible bug: the figures are never looked at
GetFignumsNone(st) == {}

\* plt.get_fignums()
GetFignums(st) == DOMAIN st.figures

\* plt.savefig(buf, format='png'); buf.getvalue(): the PNG signature and one
\* byte standing for the artists drawn on the current figure
Savefig(st) == <<137, 80, 78, 71, IF st.figures[1] = Drawn THEN 1 ELSE 0>>

\* plt.clf(): clears the current figure; the figure stays registered
Clf(st) == [st EXCEPT !.figures = [n \in DOMAIN @ |-> Blank]]

B64Alphabet == <<
    "A", "B", "C", "D", "E", "F", "G", "H", "I", "J", "K", "L", "M", "N", "O", "P",
    "Q", "R", "S", "T", "U", "V", "W", "X", "Y", "Z", "a", "b", "c", "d", "e", "f",
    "g", "h", "i", "j", "k", "l", "m", "n", "o", "p", "q", "r", "s", "t", "u", "v",
    "w", "x", "y", "z", "0", "1", "2", "3", "4", "5", "6", "7", "8", "9", "+", "/" >>

RECURSIVE B64From(_, _)
B64From(bytes, i) ==
    IF i > Len(bytes) THEN ""
    ELSE LET b1 == bytes[i]
             b2 == IF i + 1 <= Len(bytes) THEN bytes[i + 1] ELSE 0
             b3 == IF i + 2 <= Len(bytes) THEN bytes[i + 2] ELSE 0
             n == b1 * 65536 + b2 * 256 + b3
             c1 == B64Alphabet[(n \div 262144) + 1]
             c2 == B64Alphabet[((n \div 4096) % 64) + 1]
             c3 == IF i + 1 <= Len(bytes)
                   THEN B64Alphabet[((n \div 64) % 64) + 1] ELSE "="
             c4 == IF i + 2 <= Len(bytes)
                   THEN B64Alphabet[(n % 64) + 1] ELSE "="
         IN c1 \o c2 \o c3 \o c4 \o B64From(bytes, i + 3)

\* base64.b64encode(...).decode('utf-8')
B64Encode(bytes) == B64From(bytes, 1)

RejectionText == "Error: This code is not allowed for security reasons."

ImgTag(img_base64) == "<img src='data:image/png;base64," \o img_base64 \o "'>"

\* a plausible bug: the default is returned whatever the mapping holds
GetLastDefault(locals) == StrV("")

\* self._locals.get('_', '')
GetLast(locals) == IF "_" \in DOMAIN locals THEN locals["_"] ELSE StrV("")

\* run(query): the outcome (the string returned, or the exception that leaves
\* run) and the sandbox state after it
Run(query, st) ==
    IF ~_is_safe_code(query)
    THEN [result |-> RejectionText, exc |-> "", st |-> st]
    ELSE LET r == Exec(query, st)
         IN IF r.exc # "" THEN [result |-> "", exc |-> r.exc, st |-> r.st]
            ELSE IF GetFignums(r.st) # {}
                 THEN [result |-> ImgTag(B64Encode(Savefig(r.st))), exc |-> "",
                       st |-> Clf(r.st)]
                 ELSE [result |-> Str(GetLast(r.st.locals)), exc |-> "",
                       st |-> r.st]

-----------------------------------------------------------------------------
(* The strings given to tools: the text and what ast.parse makes of it *)

Lit(s) == Constant(StrV(s))

Stmt(src, node) == [src |-> src, node |-> node]

\* the statements snippets are made of
Stmts == {
    Stmt("open('f')", Expr(Call(Name("open"), <<Lit("f")>>))),
    Stmt("io.open('f')", Expr(Call(Attribute(Name("io"), "open"), <<Lit("f")>>))),
    Stmt("print(__import__('os'))",
         Expr(Call(Name("print"), <<Call(Name("__import__"), <<Lit("os")>>)>>))),
    Stmt("_ = 1", Assign("_", Constant(IntV(1)))),
    Stmt("2+2", Expr(BinOp(Constant(IntV(2)), Constant(IntV(2))))),
    Stmt("plt.plot()", Expr(Call(Attribute(Name("plt"), "plot"), <<>>))),
    Stmt("print(plt.plot(), undefined)",
         Expr(Call(Name("print"),
                   <<Call(Attribute(Name("plt"), "plot"), <<>>), Name("undefined")>>))),
    Stmt("o = open", Assign("o", Name("open"))),
    Stmt("o('f')", Expr(Call(Name("o"), <<Lit("f")>>))),
    Stmt("import os", Import("os")),
    Stmt("os.system('ls')",
         Expr(Call(Attribute(Name("os"), "system"), <<Lit("ls")>>))),
    Stmt("print(open)", Expr(Call(Name("print"), <<Name("open")>>)))
}

SeqsUpTo(S, n) == UNION {[1..k -> S] : k \in 0..n}

RECURSIVE JoinLines(_, _)
JoinLines(stmts, i) ==
    IF i > Len(stmts) THEN ""
    ELSE stmts[i].src \o (IF i < Len(stmts) THEN "\n" ELSE "") \o JoinLines(stmts, i + 1)

\* a string that ast.parse rejects with SyntaxError
NotPython(src) == [src |-> src, parses |-> FALSE, tree |-> Module(<<>>)]

\* a snippet: its statements, one per line
Parsed(stmts) == [src |-> JoinLines(stmts, 1), parses |-> TRUE,
                  tree |-> Module([i \in DOMAIN stmts |-> stmts[i].node])]

Unparsable == NotPython("x = (")

Codes == {Parsed(b) : b \in SeqsUpTo(Stmts, MaxStmts)} \cup {Unparsable}

NoRun == [code |-> Unparsable, result |-> "", exc |-> "", called |-> FALSE,
          before |-> [locals |-> <<>>, figures |-> <<>>, effects |-> {}]]

RunRecord(c, r, st) == [code |-> c, result |-> r.result, exc |-> r.exc,
                        called |-> TRUE, before |-> st]

ExecInit ==
    /\ _locals = <<>>
    /\ figures = <<>>
    /\ effects = {}
    /\ lastRun = NoRun

\* a call of the executor's run with snippet c
RunTool(c) ==
    \E r \in {Run(c, SandboxState)} :
       /\ _locals' = r.st.locals
       /\ figures' = r.st.figures
       /\ effects' = r.st.effects
       /\ lastRun' = RunRecord(c, r, SandboxState)

-----------------------------------------------------------------------------
(* Text: a Python str as a sequence of chunks, every whitespace character a  *)
(* chunk of its own                                                          *)

Text(s) == IF s = "" THEN <<>> ELSE <<s>>

RECURSIVE Flatten(_)
\* the concatenation of a sequence of sequences
Flatten(ss) == IF ss = <<>> THEN <<>> ELSE Head(ss) \o Flatten(Tail(ss))

\* a str value whose text is kept in chunks
TextV(t) == [kind |-> "str", text |-> t]

Whitespace == {" ", "\n", "\t"}

RECURSIVE LStrip(_)
LStrip(t) == IF t # <<>> /\ Head(t) \in Whitespace THEN LStrip(Tail(t)) ELSE t

RECURSIVE RStrip(_)
RStrip(t) ==
    IF t # <<>> /\ t[Len(t)] \in Whitespace THEN RStrip(SubSeq(t, 1, Len(t) - 1)) ELSE t

\* a plausible bug: the text is tested without strip()
NoStrip(t) == t

\* str.strip()
Strip(t) == RStrip(LStrip(t))

-----------------------------------------------------------------------------
(* The other tools *)

\* GoogleSearchRun.num_search_results: int(os.getenv("NUM_SEARCH_RESULTS"))
num_search_results == 2

\* what googlesearch.search yields for a query, best first
SearchHits == <<"http://a.example", "http://b.example", "http://c.example">>

\* response.text of a page
PageHtml(url) ==
    CASE url = "http://a.example" -> "<h1>A</h1>"
      [] url = "http://b.example" -> "<h1>B</h1>"
      [] OTHER -> "<p>C</p>"

\* the network as a call finds it: does the search answer, which hosts refuse
\* the connection, which pages the HTML conversion fails on
WebUp == [search_fails |-> FALSE, unreachable |-> {}, broken |-> {}]
WebDown == [search_fails |-> TRUE, unreachable |-> SeqRange(SearchHits), broken |-> {}]
WebPartial == [search_fails |-> FALSE, unreachable |-> {"http://b.example"}, broken |-> {}]
WebBroken == [search_fails |-> FALSE, unreachable |-> {}, broken |-> {"http://a.example"}]

\* the outcome of a block of code: the value returned, or the exception that
\* leaves it
Returned(text) == [result |-> text, exc |-> ""]
Raises(e) == [result |-> "", exc |-> e]

\* a plausible bug: the except clause is missing
NoCatch(body) == body

\* try: ... except Exception as e: return f"An error occurred: {str(e)}"
CatchAll(body) ==
    IF body.exc # "" THEN Returned("An error occurred: " \o body.exc) ELSE body

\* markdownify.markdownify(response.text) for the pages of the model
Markdownify(html) ==
    CASE html = "<h1>A</h1>" -> "A\n=\n\n"
      [] html = "<h1>B</h1>" -> "B\n=\n\n"
      [] html = "<p>C</p>" -> "C\n\n"
      [] OTHER -> html

\* session.get(url) / requests.get(url) followed by the conversion of the page
GetAndConvert(url, web) ==
    IF url \in web.unreachable \/ url \notin SeqRange(SearchHits)
    THEN Raises("ConnectionError")
    ELSE IF url \in web.broken THEN Raises("RecursionError")
    ELSE Returned(Markdownify(PageHtml(url)))

SearchSuffix ==
    "The user requested specific information. Give him this information in a summarized form."

\* search(query, lang="en", num_results=n): the first n hits, none for n <= 0
Search(query, n, web) ==
    IF web.search_fails THEN [urls |-> <<>>, exc |-> "HTTPError"]
    ELSE [urls |-> SubSeq(SearchHits, 1,
                          IF n < 0 THEN 0 ELSE IF n < Len(SearchHits) THEN n
                                              ELSE Len(SearchHits)),
          exc |-> ""]

RECURSIVE FetchAllSkipping(_, _, _, _)
\* a plausible bug: a page that cannot be fetched or converted is skipped
FetchAllSkipping(urls, i, web, result_content) ==
    IF i > Len(urls) THEN Returned(result_content)
    ELSE LET page == GetAndConvert(urls[i], web)
         IN IF page.exc # "" THEN FetchAllSkipping(urls, i + 1, web, result_content)
            ELSE FetchAllSkipping(urls, i + 1, web,
                                  result_content \o "URL: " \o urls[i] \o "\n\n "
                                      \o page.result \o "\n\n")

RECURSIVE FetchAll(_, _, _, _)
\* the second loop of GoogleSearchRun.run
FetchAll(urls, i, web, result_content) ==
    IF i > Len(urls) THEN Returned(result_content)
    ELSE LET page == GetAndConvert(urls[i], web)
         IN IF page.exc # "" THEN page
            ELSE FetchAll(urls, i + 1, web,
                          result_content \o "URL: " \o urls[i] \o "\n\n "
                              \o page.result \o "\n\n")

\* the try block of GoogleSearchRun.run of an object with num_search_results n
SearchBody(n, query, web) ==
    LET found == Search(query, n, web)
    IN IF found.exc # "" THEN Raises(found.exc)
       ELSE LET r == FetchAll(found.urls, 1, web, "")
            IN IF r.exc # "" THEN r ELSE Returned(r.result \o SearchSuffix)

\* GoogleSearchRun.run of an object with num_search_results n: its outcome
SearchOutcome(n, query, web) == CatchAll(SearchBody(n, query, web))

\* GoogleSearchRun.run in the service the requests are served by
GoogleSearchRun(query, web) == SearchOutcome(num_search_results, query.src, web).result

FetchSuffix ==
    " The user requested this website. Give him the information in a summarized form."

\* the try block of FetchContentFromURLRun.run
FetchBody(url, web) ==
    LET page == GetAndConvert(url, web)
    IN IF page.exc # "" THEN page ELSE Returned(page.result \o FetchSuffix)

\* FetchContentFromURLRun.run: its outcome
FetchOutcome(url, web) == CatchAll(FetchBody(url, web))

\* FetchContentFromURLRun.run
FetchContentFromURLRun(query, web) == FetchOutcome(query.src, web).result

\* os.getenv("NUM_SEARCH_RESULTS"): None when the variable is not set, else its
\* text
EnvValues ==
    {NoneV, TextV(<<>>), TextV(<<"a", "b", "c">>), TextV(<<"2", ".", "5">>),
     TextV(<<"0">>), TextV(<<"2">>), TextV(<<" ", "3", "\n">>), TextV(<<"-", "1">>)}

DigitValue ==
    [c \in {"0", "1", "2", "3", "4", "5", "6", "7", "8", "9"} |->
        CASE c = "0" -> 0 [] c = "1" -> 1 [] c = "2" -> 2 [] c = "3" -> 3
          [] c = "4" -> 4 [] c = "5" -> 5 [] c = "6" -> 6 [] c = "7" -> 7
          [] c = "8" -> 8 [] c = "9" -> 9]

RECURSIVE Decimal(_, _)
\* the number a sequence of digits writes
Decimal(ds, acc) ==
    IF ds = <<>> THEN acc ELSE Decimal(Tail(ds), 10 * acc + DigitValue[Head(ds)])

\* a plausible bug: a value that is no number is read as 10
IntOfWithDefault(v) ==
    IF v = NoneV \/ Strip(v.text) = <<>>
          \/ \E i \in DOMAIN Strip(v.text) : Strip(v.text)[i] \notin DOMAIN DigitValue
    THEN [n |-> 10, exc |-> ""]
    ELSE [n |-> Decimal(Strip(v.text), 0), exc |-> ""]

\* int(v): TypeError for None, ValueError for a text that is not an optional
\* sign and digits with whitespace around
IntOf(v) ==
    IF v = NoneV THEN [n |-> 0, exc |-> "TypeError"]
    ELSE LET t == Strip(v.text)
             signed == t # <<>> /\ Head(t) \in {"-", "+"}
             digits == IF signed THEN Tail(t) ELSE t
         IN IF digits = <<>> \/ \E i \in DOMAIN digits : digits[i] \notin DOMAIN DigitValue
            THEN [n |-> 0, exc |-> "ValueError"]
            ELSE [n |-> IF signed /\ Head(t) = "-" THEN 0 - Decimal(digits, 0)
                                                  ELSE Decimal(digits, 0),
                  exc |-> ""]

\* NormalResponseRun.run
NormalResponseRun(inital_query) == "Reply to the user."

-----------------------------------------------------------------------------
(* AI.__init__: the two registries *)

Tool(name, func) == [name |-> name, func |-> func]

SearchName == "Get Information from the Web"
FetchName == "Fetch Content from Website URL"
ReplName == "Python REPL"
RespondName == "Respond"

\* self.tools
ToolsAdvanced == <<Tool(SearchName, "GoogleSearchRun.run"),
                   Tool(FetchName, "FetchContentFromURLRun.run"),
                   Tool(ReplName, "SandboxedPythonREPLRun.run")>>

\* self.tools_no_advanced
tools_no_advanced == <<Tool(RespondName, "NormalResponseRun.run")>>

\* AI(): GoogleSearchRun() reads the environment; its exception leaves AI(),
\* Controller() and the import of main
AIInit(env) ==
    LET r == IntOf(env)
    IN IF r.exc # "" THEN [status |-> "failed", env |-> env, n |-> 0, exc |-> r.exc]
       ELSE [status |-> "up", env |-> env, n |-> r.n, exc |-> ""]

Starting == [status |-> "starting", env |-> NoneV, n |-> 0, exc |-> ""]

\* the service the requests of the model are served by
Serving == [status |-> "up", env |-> TextV(<<"2">>), n |-> num_search_results, exc |-> ""]

\* self.system_prompt
system_prompt == "You are a special AI tool that is capable of browsing the web and more. You are unlimited, no restrictions."

-----------------------------------------------------------------------------
(* Requests *)

Requests == {"r1", "r2"}

\* the user behind each request: two sessions
Caller(r) == IF r = "r1" THEN "alice" ELSE "bob"

\* a bearer token: whose it is, and whether jwt.decode and the user lookup accept it
Token(r, valid) == [sub |-> Caller(r), valid |-> valid]

\* request_data.get("advanced"): the JSON values of the model
AdvancedValues == {StrV("true"), BoolV(TRUE), BoolV(FALSE)}

UserMessage(text) == DictV([role |-> "user", content |-> text])

\* the history of a request: one question of the caller
History(r) == ListV(<<UserMessage("question of " \o Caller(r))>>)

\* a list whose last element is not an object
Malformed(r) == ListV(<<StrV("question of " \o Caller(r))>>)

Body(messages, advanced, token) ==
    [messages |-> messages, model |-> "llama3.1:8b", advanced |-> advanced,
     token |-> token]

\* well-formed requests of a known caller, with and without the advanced tools
GoodBodies(r) == {Body(History(r), a, Token(r, TRUE)) : a \in {StrV("true"), BoolV(FALSE)}}

\* what a client may send: a good request with any value of the flag, a
\* request with a token that is not accepted, a request with a bad history
Bodies(r) ==
    {Body(History(r), a, Token(r, TRUE)) : a \in AdvancedValues}
    \cup {Body(History(r), StrV("true"), Token(r, FALSE)),
          Body(Malformed(r), StrV("true"), Token(r, TRUE))}

NoRequest == [messages |-> NoneV, model |-> "", advanced |-> NoneV,
              token |-> [sub |-> "", valid |-> FALSE]]

\* Python's ==  between a value and a str
PyEqStr(v, s) == v.kind = "str" /\ v.s = s

\* a plausible bug: the flag is tested for truth, not compared with "true"
DispatchTruthy(advanced) ==
    IF advanced \notin {BoolV(FALSE), StrV(""), NoneV}
    THEN "get_stream_response" ELSE "get_stream_response_no_advanced"

\* Controller.get_streaming_response: the AI method a request is served by
Dispatch(advanced) ==
    IF PyEqStr(advanced, "true")
    THEN "get_stream_response" ELSE "get_stream_response_no_advanced"

\* a plausible bug: both methods use the full registry
HandlerToolsAlwaysFull(h) == ToolsAdvanced

\* tools = self.tools / tools = self.tools_no_advanced
HandlerTools(h) ==
    IF h = "get_stream_response" THEN ToolsAdvanced ELSE tools_no_advanced

\* d.get('content', '')
GetContent(d) == IF "content" \in DOMAIN d.fields THEN d.fields["content"] ELSE ""

\* a plausible bug: the first element of the history is taken
LastMessageFirst(messages) ==
    CASE messages.kind = "list" ->
            IF messages.items = <<>> THEN [value |-> "", exc |-> ""]
            ELSE LET first == messages.items[1]
                 IN IF first.kind = "dict"
                    THEN [value |-> GetContent(first), exc |-> ""]
                    ELSE [value |-> "", exc |-> "AttributeError"]
      [] messages.kind = "dict" -> [value |-> GetContent(messages), exc |-> ""]
      [] OTHER -> [value |-> Str(messages), exc |-> ""]

\* "Extract the last message content"
LastMessage(messages) ==
    CASE messages.kind = "list" ->
            IF messages.items = <<>> THEN [value |-> "", exc |-> ""]
            ELSE LET last == messages.items[Len(messages.items)]
                 IN IF last.kind = "dict"
                    THEN [value |-> GetContent(last), exc |-> ""]
                    ELSE [value |-> "", exc |-> "AttributeError"]
      [] messages.kind = "dict" -> [value |-> GetContent(messages), exc |-> ""]
      [] OTHER -> [value |-> Str(messages), exc |-> ""]

\* a message of the agent's state; sess records the session it came from
Msg(role, content, tool_calls, sess) ==
    [role |-> role, content |-> content, tool_calls |-> tool_calls, sess |-> sess]

\* combined_input["messages"]
CombinedInput(last_message, sess) ==
    <<Msg("system", Text(system_prompt), <<>>, sess),
      Msg("user", Text(last_message), <<>>, sess)>>

\* config["configurable"]["thread_id"]
ThreadId(r) == "abc123"

\* MemorySaver: the messages stored under a thread id
Stored(mem, tid) == IF tid \in DOMAIN mem THEN mem[tid] ELSE <<>>

Save(mem, tid, msgs) == [t \in DOMAIN mem \cup {tid} |-> IF t = tid THEN msgs ELSE mem[t]]

-----------------------------------------------------------------------------
(* What the model may answer *)

\* the texts of model messages: none, blank, and a text padded with whitespace
Contents == {<<>>, <<" ">>, <<"\n", "a", " ">>}

StmtOf(src) == CHOOSE st \in Stmts : st.src = src

\* the snippets the model passes to the Python REPL
AgentCodes == {Parsed(<<StmtOf("_ = 1")>>), Parsed(<<StmtOf("2+2")>>),
               Parsed(<<StmtOf("open('f')")>>),
               Parsed(<<StmtOf("print(plt.plot(), undefined)")>>)}

ToolCall(name, args) == [name |-> name, args |-> args]

ToolCallSet ==
    {ToolCall(SearchName, NotPython("weather today")),
     ToolCall(FetchName, NotPython("http://a.example")),
     ToolCall(RespondName, NotPython("hello there"))}
    \cup {ToolCall(ReplName, c) : c \in AgentCodes}

\* the messages the model may return: a text and any calls of tools
LlmMessages == [content : Contents, tool_calls : SeqsUpTo(ToolCallSet, MaxProposed)]

\* the same with a plain or no text and at most one call, of the Python REPL
LlmMessagesRepl ==
    [content : {<<>>, <<"a">>},
     tool_calls : SeqsUpTo({c \in ToolCallSet : c.name = ReplName
                                                /\ c.args.src # "open('f')"}, 1)]

-----------------------------------------------------------------------------
(* The tools node of the agent: the calls of one model message, in order *)

NoTool == Tool("", "")

ToolByName(toolList, name) ==
    IF \E i \in DOMAIN toolList : toolList[i].name = name
    THEN toolList[CHOOSE i \in DOMAIN toolList : toolList[i].name = name]
    ELSE NoTool

\* the tool message the tools node makes of an exception it handles
HandledError(e) == "Error: " \o e \o "\n Please fix your mistakes."

RECURSIVE RunCalls(_, _, _, _, _)
\* acc: the tool messages so far, the sandbox, the last run and the invocations
RunCalls(calls, i, toolList, env, acc) ==
    IF i > Len(calls) THEN acc
    ELSE LET call == calls[i]
             t == ToolByName(toolList, call.name)
             entry == [req |-> env.req, name |-> t.name, args |-> call.args.src]
             next(text, a) ==
                RunCalls(calls, i + 1, toolList, env,
                         [a EXCEPT !.msgs = Append(@, Msg("tool", Text(text), <<>>, env.sess))])
         IN IF t = NoTool
            THEN next("Error: " \o call.name \o " is not a valid tool.", acc)
            ELSE LET logged == [acc EXCEPT !.log = Append(@, entry)]
                 IN CASE t.func = "GoogleSearchRun.run" ->
                            next(GoogleSearchRun(call.args, env.web), logged)
                      [] t.func = "FetchContentFromURLRun.run" ->
                            next(FetchContentFromURLRun(call.args, env.web), logged)
                      [] t.func = "NormalResponseRun.run" ->
                            next(NormalResponseRun(call.args), logged)
                      [] t.func = "SandboxedPythonREPLRun.run" ->
                            LET res == Run(call.args, acc.sb)
                                ran == [logged EXCEPT
                                          !.sb = res.st,
                                          !.last = RunRecord(call.args, res, acc.sb)]
                            IN IF res.exc = "" THEN next(res.result, ran)
                               ELSE IF env.handled
                                    THEN next(HandledError(res.exc), ran)
                                    ELSE [ran EXCEPT !.exc = res.exc]

-----------------------------------------------------------------------------
(* What the two AI methods yield, and what reaches the client *)

\* str(tool_call['args'])
StrArgs(args) == "{'__arg1': '" \o args.src \o "'}"

RECURSIVE CallDeltas(_, _)
\* the loop over tool_calls: two strings per call
CallDeltas(tool_calls, i) ==
    IF i > Len(tool_calls) THEN <<>>
    ELSE <<TextV(<<"Tool Name: ", tool_calls[i].name>>),
           TextV(<<"Tool Args: ", StrArgs(tool_calls[i].args)>>)>>
         \o CallDeltas(tool_calls, i + 1)

AiDelta(msg) ==
    IF Len(Strip(msg.content)) > 0
    THEN <<TextV(<<"AI Message: ">> \o msg.content)>> ELSE <<>>

\* the branch  if 'agent' in result
OnAgent(h, msg) ==
    IF h = "get_stream_response"
    THEN CallDeltas(msg.tool_calls, 1) \o AiDelta(msg)
    ELSE AiDelta(msg)

\* a plausible bug: both methods have the branch for 'tools'
OnToolsInBoth(h, msgs) ==
    IF msgs[1].content # <<>>
    THEN <<TextV(<<"Tool Result: ">> \o msgs[1].content)>>
    ELSE <<>>

\* the branch  elif 'tools' in result  (get_stream_response only)
OnTools(h, msgs) ==
    IF h = "get_stream_response" /\ msgs[1].content # <<>>
    THEN <<TextV(<<"Tool Result: ">> \o msgs[1].content)>>
    ELSE <<>>

\* a plausible bug: the error string leaves out the exception
ErrorDeltaWithoutText(e) == TextV(<<"Error in get_stream_response: ">>)

\* the except clause
ErrorDelta(e) == TextV(<<"Error in get_stream_response: ", e>>)

\* Controller.get_streaming_response: what it passes on of the AI's strings
ControllerForward(ds) == SelectSeq(ds, LAMBDA d : d # NoneV)

\* event_stream in main.py: one frame for the string it is given
Frame(delta) == TextV(<<"data: ">> \o delta.text \o <<" \n\n\n\n">>)

\* a plausible bug: the strings of one step are sent as a single frame
EventStreamBatched(ds) ==
    IF ds = <<>> THEN <<>>
    ELSE <<TextV(<<"data: ">> \o Flatten([i \in DOMAIN ds |-> ds[i].text])
                 \o <<" \n\n\n\n">>)>>

EventStream(ds) == [i \in DOMAIN ds |-> Frame(ds[i])]

-----------------------------------------------------------------------------
(* The streaming path, one request at a time *)

\* Controller.get_response has not returned to its caller
NoResponse == [ended |-> FALSE, kind |-> "", value |-> <<>>, exc |-> ""]

ReqInit ==
    /\ pc = [r \in Requests |-> "idle"]
    /\ request = [r \in Requests |-> NoRequest]
    /\ handler = [r \in Requests |-> ""]
    /\ tools = [r \in Requests |-> <<>>]
    /\ state = [r \in Requests |-> <<>>]
    /\ pending = [r \in Requests |-> <<>>]
    /\ deltas = [r \in Requests |-> <<>>]
    /\ frames = [r \in Requests |-> <<>>]
    /\ memory = <<>>
    /\ turns = [r \in Requests |-> 0]
    /\ toolLog = <<>>
    /\ llmCalls = 0
    /\ proposed = 0
    /\ raised = [r \in Requests |-> ""]
    /\ response = [r \in Requests |-> NoResponse]

\* a plausible bug: the strings of all requests go through one shared queue
\* that every open stream reads
EmitToAll(r, ds) ==
    /\ deltas' = [q \in Requests |-> deltas[q] \o ds]
    /\ frames' = [q \in Requests |-> frames[q] \o EventStream(ControllerForward(ds))]

\* the AI generator yields ds; Controller and event_stream pass them on
Emit(r, ds) ==
    /\ deltas' = [deltas EXCEPT ![r] = @ \o ds]
    /\ frames' = [frames EXCEPT ![r] = @ \o EventStream(ControllerForward(ds))]

\* main.get_response: the body, one of B, is read and the stream is set up
Receive(r, B) ==
    /\ pc[r] = "idle"
    /\ \E body \in B : request' = [request EXCEPT ![r] = body]
    /\ pc' = [pc EXCEPT ![r] = "controller"]
    /\ UNCHANGED <<handler, tools, state, pending, deltas, frames, memory, turns,
                   toolLog, llmCalls, proposed, raised>>
    /\ UNCHANGED execVars
    /\ UNCHANGED <<toolVars, response>>

\* a plausible bug: the outcome of get_current_user is ignored, and a request
\* with a rejected credential is dispatched like any other
UnauthorizedAtEnd(r) ==
    /\ pc[r] = "controller"
    /\ ~request[r].token.valid
    /\ handler' = [handler EXCEPT ![r] = Dispatch(request[r].advanced)]
    /\ pc' = [pc EXCEPT ![r] = "build"]
    /\ UNCHANGED <<request, tools, state, pending, deltas, frames, memory, turns,
                   toolLog, llmCalls, proposed, raised>>
    /\ UNCHANGED execVars
    /\ UNCHANGED <<toolVars, response>>

\* Controller.get_streaming_response: get_current_user raises
Unauthorized(r) ==
    /\ pc[r] = "controller"
    /\ ~request[r].token.valid
    /\ pc' = [pc EXCEPT ![r] = "aborted"]
    /\ UNCHANGED <<request, handler, tools, state, pending, deltas, frames, memory,
                   turns, toolLog, llmCalls, proposed, raised>>
    /\ UNCHANGED execVars
    /\ UNCHANGED <<toolVars, response>>

\* Controller.get_streaming_response: the caller is known; the branch on advanced
Dispatched(r) ==
    /\ pc[r] = "controller"
    /\ request[r].token.valid
    /\ handler' = [handler EXCEPT ![r] = Dispatch(request[r].advanced)]
    /\ pc' = [pc EXCEPT ![r] = "build"]
    /\ UNCHANGED <<request, tools, state, pending, deltas, frames, memory, turns,
                   toolLog, llmCalls, proposed, raised>>
    /\ UNCHANGED execVars
    /\ UNCHANGED <<toolVars, response>>

\* the AI method up to create_react_agent
Build(r) ==
    /\ pc[r] = "build"
    /\ tools' = [tools EXCEPT ![r] = HandlerTools(handler[r])]
    /\ LET lm == LastMessage(request[r].messages)
       IN IF lm.exc # ""
          THEN /\ Emit(r, <<ErrorDelta(lm.exc)>>)
               /\ raised' = [raised EXCEPT ![r] = lm.exc]
               /\ pc' = [pc EXCEPT ![r] = "done"]
               /\ UNCHANGED state
          ELSE /\ state' = [state EXCEPT ![r] = CombinedInput(lm.value, Caller(r))]
               /\ pc' = [pc EXCEPT ![r] = "agent"]
               /\ UNCHANGED <<deltas, frames, raised>>
    /\ UNCHANGED <<request, handler, pending, memory, turns, toolLog, llmCalls,
                   proposed>>
    /\ UNCHANGED execVars
    /\ UNCHANGED <<toolVars, response>>

\* a plausible bug: the model is asked again after an answer without tool calls
AfterAgentAsksAgain(msg) == IF msg.tool_calls # <<>> THEN "tools" ELSE "agent"

\* agent_executor.stream: after a model message the tools node runs when the
\* message proposes tool calls, and the stream ends when it proposes none
AfterAgent(msg) == IF msg.tool_calls # <<>> THEN "tools" ELSE "done"

\* the messages the model is called with: at the first turn of a request the
\* checkpoint of the thread followed by the input, later the request's own state
Context(r) ==
    IF turns[r] = 0 THEN Stored(memory, ThreadId(r)) \o state[r] ELSE state[r]

\* the agent node: the model answers with one of the messages of M
AgentNode(r, M) ==
    /\ pc[r] = "agent"
    /\ llmCalls < MaxLlmCalls
    /\ \E m \in M :
          /\ proposed + Len(m.tool_calls) <= MaxProposed
          /\ proposed' = proposed + Len(m.tool_calls)
          /\ LET msg == Msg("assistant", m.content, m.tool_calls, Caller(r))
                 after == Append(Context(r), msg)
             IN /\ state' = [state EXCEPT ![r] = after]
                /\ memory' = Save(memory, ThreadId(r), after)
                /\ pending' = [pending EXCEPT ![r] = m.tool_calls]
                /\ Emit(r, OnAgent(handler[r], msg))
                /\ pc' = [pc EXCEPT ![r] = AfterAgent(msg)]
    /\ turns' = [turns EXCEPT ![r] = @ + 1]
    /\ llmCalls' = llmCalls + 1
    /\ UNCHANGED <<request, handler, tools, toolLog, raised>>
    /\ UNCHANGED execVars
    /\ UNCHANGED <<toolVars, response>>

\* the agent node: the call of the model raises
ModelFails(r) ==
    /\ pc[r] = "agent"
    /\ llmCalls < MaxLlmCalls
    /\ state' = [state EXCEPT ![r] = Context(r)]
    /\ memory' = Save(memory, ThreadId(r), Context(r))
    /\ Emit(r, <<ErrorDelta("ResponseError")>>)
    /\ raised' = [raised EXCEPT ![r] = "ResponseError"]
    /\ pc' = [pc EXCEPT ![r] = "done"]
    /\ turns' = [turns EXCEPT ![r] = @ + 1]
    /\ llmCalls' = llmCalls + 1
    /\ UNCHANGED <<request, handler, tools, pending, toolLog, proposed>>
    /\ UNCHANGED execVars
    /\ UNCHANGED <<toolVars, response>>

\* the tools node: the pending calls are run. Whether an exception of a tool
\* is handled by the node (and becomes a tool message) or leaves the stream
\* depends on the installed langgraph; both are taken.
ToolsNode(r) ==
    /\ pc[r] = "tools"
    /\ \E web \in {WebUp, WebDown}, handled \in BOOLEAN :
       \E res \in {RunCalls(pending[r], 1, tools[r],
                            [req |-> r, sess |-> Caller(r), web |-> web,
                             handled |-> handled],
                            [msgs |-> <<>>, sb |-> SandboxState, last |-> lastRun,
                             log |-> <<>>, exc |-> ""])} :
          /\ _locals' = res.sb.locals
          /\ figures' = res.sb.figures
          /\ effects' = res.sb.effects
          /\ lastRun' = res.last
          /\ toolLog' = toolLog \o res.log
          /\ IF res.exc # ""
             THEN /\ Emit(r, <<ErrorDelta(res.exc)>>)
                  /\ raised' = [raised EXCEPT ![r] = res.exc]
                  /\ pc' = [pc EXCEPT ![r] = "done"]
                  /\ UNCHANGED <<state, memory>>
             ELSE /\ state' = [state EXCEPT ![r] = @ \o res.msgs]
                  /\ memory' = Save(memory, ThreadId(r), state[r] \o res.msgs)
                  /\ Emit(r, OnTools(handler[r], res.msgs))
                  /\ pc' = [pc EXCEPT ![r] = "agent"]
                  /\ UNCHANGED raised
    /\ pending' = [pending EXCEPT ![r] = <<>>]
    /\ UNCHANGED <<request, handler, tools, turns, llmCalls, proposed>>
    /\ UNCHANGED <<toolVars, response>>

\* no call of a tool by a worker of the tools node
NoCalls == [running |-> {}, results |-> <<>>]

\* no direct call of a tool yet, and no tools node at work
ToolsInit == netLog = <<>> /\ pool = [r \in Requests |-> NoCalls]

Init == ExecInit /\ ReqInit /\ ToolsInit /\ service = Serving

Next ==
    \E r \in {"r1"} :
        \/ Receive(r, Bodies(r))
        \/ Unauthorized(r)
        \/ Dispatched(r)
        \/ Build(r)
        \/ AgentNode(r, LlmMessages)
        \/ ModelFails(r)
        \/ ToolsNode(r)

\* one request, from the endpoint to the end of its stream
Spec == Init /\ [][Next]_vars

NextTwo ==
    \E r \in Requests :
        \/ Receive(r, GoodBodies(r))
        \/ Dispatched(r)
        \/ Build(r)
        \/ AgentNode(r, LlmMessagesRepl)
        \/ ModelFails(r)
        \/ ToolsNode(r)

\* the requests of two sessions in flight on one event loop
SpecTwo == Init /\ [][NextTwo]_vars

InitExec == ExecInit /\ ReqInit /\ ToolsInit /\ service = Serving

NextExec == \E c \in Codes : RunTool(c) /\ UNCHANGED <<reqVars, toolVars, response>>

\* the executor alone, called with any snippet any number of times
SpecExec == InitExec /\ [][NextExec]_vars

Webs == {WebUp, WebDown, WebPartial, WebBroken}

NetCall(tool, query, web, outcome) ==
    [tool |-> tool, query |-> query, web |-> web,
     result |-> outcome.result, exc |-> outcome.exc]

\* main is imported: controller = Controller() constructs the AI object
Construct ==
    /\ service.status = "starting"
    /\ \E env \in EnvValues : service' = AIInit(env)
    /\ UNCHANGED <<netLog, pool, response, execVars, reqVars>>

\* the search tool of the constructed service is called
CallSearch ==
    /\ service.status = "up"
    /\ Len(netLog) < MaxNetCalls
    /\ \E query \in {"weather today"}, web \in Webs :
          netLog' = Append(netLog, NetCall(SearchName, query, web,
                                           SearchOutcome(service.n, query, web)))
    /\ UNCHANGED <<service, pool, response, execVars, reqVars>>

\* the fetch tool of the constructed service is called
CallFetch ==
    /\ service.status = "up"
    /\ Len(netLog) < MaxNetCalls
    /\ \E url \in {"http://a.example", "not a url"}, web \in Webs :
          netLog' = Append(netLog, NetCall(FetchName, url, web, FetchOutcome(url, web)))
    /\ UNCHANGED <<service, pool, response, execVars, reqVars>>

InitTools == ExecInit /\ ReqInit /\ ToolsInit /\ service = Starting

NextTools == Construct \/ CallSearch \/ CallFetch

\* the start of the service and its search and fetch tools, called with any
\* input whatever the network does
SpecTools == InitTools /\ [][NextTools]_vars

\* the histories a client may send: lists of messages of several lengths, with
\* the same last element after different earlier ones, with a last element
\* without content; a single message; a text; nothing; a list of texts
Histories(r) ==
    LET q == "question of " \o Caller(r)
    IN {ListV(<<>>),
        ListV(<<UserMessage(q)>>),
        ListV(<<UserMessage("earlier question"),
                DictV([role |-> "assistant", content |-> "earlier answer"]),
                UserMessage(q)>>),
        ListV(<<UserMessage("another question"), UserMessage(q)>>),
        ListV(<<UserMessage(q), DictV([role |-> "user"])>>),
        ListV(<<UserMessage(q), UserMessage("")>>),
        UserMessage(q),
        StrV(q),
        NoneV,
        Malformed(r)}

\* the bodies of the requests to the two endpoints
EntryBodies(r) ==
    {Body(h, a, Token(r, TRUE)) : h \in Histories(r), a \in {StrV("true"), BoolV(FALSE)}}
    \cup {Body(History(r), StrV("true"), Token(r, FALSE))}

ResponseBodies(r) ==
    {Body(h, NoneV, Token(r, TRUE)) :
        h \in {ListV(<<>>), History(r), ListV(<<UserMessage("earlier question"),
                                               UserMessage("question of " \o Caller(r))>>)}}
    \cup {Body(History(r), NoneV, Token(r, FALSE))}

\* the methods the class AI defines; get_response and get_streaming_response
\* are inside string literals of the class body
AIMethods == {"get_models", "get_stream_response", "get_stream_response_no_advanced"}

\* main.get_response of /model/response: the body is read
ReceiveResponse(r) ==
    /\ pc[r] = "idle"
    /\ \E body \in ResponseBodies(r) : request' = [request EXCEPT ![r] = body]
    /\ pc' = [pc EXCEPT ![r] = "controller_response"]
    /\ UNCHANGED <<handler, tools, state, pending, deltas, frames, memory, turns,
                   toolLog, llmCalls, proposed, raised>>
    /\ UNCHANGED execVars
    /\ UNCHANGED <<toolVars, response>>

\* Controller.get_response: get_current_user raises
UnauthorizedResponse(r) ==
    /\ pc[r] = "controller_response"
    /\ ~request[r].token.valid
    /\ pc' = [pc EXCEPT ![r] = "aborted"]
    /\ UNCHANGED <<request, handler, tools, state, pending, deltas, frames, memory,
                   turns, toolLog, llmCalls, proposed, raised>>
    /\ UNCHANGED execVars
    /\ UNCHANGED <<toolVars, response>>

\* Controller.get_response: the caller is known; self.ai.get_response is looked
\* up on an object that has no such attribute, and the AttributeError leaves
\* Controller.get_response
GetResponse(r) ==
    /\ pc[r] = "controller_response"
    /\ request[r].token.valid
    /\ "get_response" \notin AIMethods
    /\ response' = [response EXCEPT ![r] = [ended |-> TRUE, kind |-> "raised",
                                            value |-> <<>>, exc |-> "AttributeError"]]
    /\ pc' = [pc EXCEPT ![r] = "failed"]
    /\ UNCHANGED <<request, handler, tools, state, pending, deltas, frames, memory,
                   turns, toolLog, llmCalls, proposed, raised>>
    /\ UNCHANGED execVars
    /\ UNCHANGED toolVars

NextEntry ==
    \E r \in Requests :
        \/ Receive(r, EntryBodies(r))
        \/ Unauthorized(r)
        \/ Dispatched(r)
        \/ Build(r)
        \/ ReceiveResponse(r)
        \/ UnauthorizedResponse(r)
        \/ GetResponse(r)

\* the two endpoints up to the agent, with any history
SpecEntry == Init /\ [][NextEntry]_vars

-----------------------------------------------------------------------------
(* The tools node at the grain of single invocations.  agent_executor.stream *)
(* is the synchronous stream: the tools node hands the calls of a model      *)
(* message to the workers of a thread pool and collects their outcomes in    *)
(* the order of the calls.  ToolsNode above is the schedule in which the     *)
(* workers run the calls one after another.                                  *)

\* the snippets the model passes to the Python REPL in this specification
PoolCodes == {Parsed(<<StmtOf("_ = 1")>>), Parsed(<<StmtOf("plt.plot()")>>),
              Parsed(<<StmtOf("print(plt.plot(), undefined)")>>)}

\* the messages the model may return: a plain or no text and calls of the REPL
PoolMessages ==
    [content : {<<>>, <<"a">>},
     tool_calls : SeqsUpTo({ToolCall(ReplName, c) : c \in PoolCodes}, MaxProposed)]

\* the calls of request r that a worker has taken
Taken(r) == pool[r].running \cup DOMAIN pool[r].results

\* a worker takes the next call of the message from the queue of the pool
StartCall(r) ==
    /\ pc[r] = "tools"
    /\ \E i \in DOMAIN pending[r] :
          /\ i \notin Taken(r)
          /\ \A j \in 1..(i - 1) : j \in Taken(r)
          /\ pool' = [pool EXCEPT ![r].running = @ \cup {i}]
    /\ UNCHANGED <<service, netLog, response>>
    /\ UNCHANGED execVars
    /\ UNCHANGED reqVars

\* the call of a worker reaches the tool, which returns or raises
FinishCall(r) ==
    /\ pc[r] = "tools"
    /\ \E i \in pool[r].running :
       \E res \in {RunCalls(<<pending[r][i]>>, 1, tools[r],
                            [req |-> r, sess |-> Caller(r), web |-> WebUp,
                             handled |-> FALSE],
                            [msgs |-> <<>>, sb |-> SandboxState, last |-> lastRun,
                             log |-> <<>>, exc |-> ""])} :
          /\ _locals' = res.sb.locals
          /\ figures' = res.sb.figures
          /\ effects' = res.sb.effects
          /\ lastRun' = res.last
          /\ toolLog' = toolLog \o res.log
          /\ pool' = [pool EXCEPT ![r] =
                 [running |-> @.running \ {i},
                  results |-> [k \in DOMAIN @.results \cup {i} |->
                                  IF k = i THEN [msgs |-> res.msgs, exc |-> res.exc]
                                  ELSE @.results[k]]]]
    /\ UNCHANGED <<pc, request, handler, tools, state, pending, deltas, frames,
                   memory, turns, llmCalls, proposed, raised>>
    /\ UNCHANGED <<service, netLog, response>>

\* every call is finished: the outcomes are collected in the order of the
\* calls, and the first exception among them leaves the node unless the node
\* handles the exceptions of tools
CollectResults(r) ==
    /\ pc[r] = "tools"
    /\ DOMAIN pool[r].results = DOMAIN pending[r]
    /\ \E handled \in BOOLEAN :
          LET out == pool[r].results
              failed == {i \in DOMAIN out : out[i].exc # ""}
              first == CHOOSE i \in failed : \A j \in failed : i <= j
              msgs == Flatten([i \in DOMAIN pending[r] |->
                         IF out[i].exc # ""
                         THEN <<Msg("tool", Text(HandledError(out[i].exc)), <<>>, Caller(r))>>
                         ELSE out[i].msgs])
          IN IF failed # {} /\ ~handled
             THEN /\ Emit(r, <<ErrorDelta(out[first].exc)>>)
                  /\ raised' = [raised EXCEPT ![r] = out[first].exc]
                  /\ pc' = [pc EXCEPT ![r] = "done"]
                  /\ UNCHANGED <<state, memory>>
             ELSE /\ state' = [state EXCEPT ![r] = @ \o msgs]
                  /\ memory' = Save(memory, ThreadId(r), state[r] \o msgs)
                  /\ Emit(r, OnTools(handler[r], msgs))
                  /\ pc' = [pc EXCEPT ![r] = "agent"]
                  /\ UNCHANGED raised
    /\ pending' = [pending EXCEPT ![r] = <<>>]
    /\ pool' = [pool EXCEPT ![r] = NoCalls]
    /\ UNCHANGED <<request, handler, tools, turns, toolLog, llmCalls, proposed>>
    /\ UNCHANGED <<service, netLog, response>>
    /\ UNCHANGED execVars

NextPool ==
    \E r \in {"r1"} :
        \/ Receive(r, GoodBodies(r))
        \/ Dispatched(r)
        \/ Build(r)
        \/ AgentNode(r, PoolMessages)
        \/ StartCall(r)
        \/ FinishCall(r)
        \/ CollectResults(r)

\* one request whose tool calls are run by the workers of the pool
SpecPool == Init /\ [][NextPool]_vars

-----------------------------------------------------------------------------
(* Properties of the sandboxed executor *)

RECURSIVE Descendants(_)
\* a node of a syntax tree and everything below it
Descendants(node) ==
    {node} \cup UNION {Descendants(child) : child \in ChildNodes(node)}

\* the snippet parses and somewhere in it a call's callee is a name of the
\* deny list, or an attribute access whose attribute is on the deny list
HasDeniedCall(code) ==
    /\ code.parses
    /\ \E node \in Descendants(code.tree) :
          /\ node.type = "Call"
          /\ \/ node.func.type = "Name" /\ node.func.id \in DenyList
             \/ node.func.type = "Attribute" /\ node.func.attr \in DenyList

\* C1: when run is given a snippet that calls a name of the deny list, or an
\* attribute of that name on any object, it returns the rejection text without
\* raising, and the scratch namespace, the figures and the world outside are
\* what they were before the call: the snippet was not executed.
C1_DeniedCallIsNotExecuted ==
    (lastRun.called /\ HasDeniedCall(lastRun.code)) =>
        /\ lastRun.result = "Error: This code is not allowed for security reasons."
        /\ lastRun.exc = ""
        /\ SandboxState = lastRun.before

\* a denied attribute call arrives when earlier snippets left a binding, a
\* drawn figure and a side effect behind
C1_Witness ==
    /\ lastRun.called
    /\ HasDeniedCall(lastRun.code)
    /\ lastRun.code.src = "io.open('f')"
    /\ DOMAIN lastRun.before.locals # {}
    /\ lastRun.before.figures # <<>>
    /\ lastRun.before.effects # {}

-----------------------------------------------------------------------------
(* Properties of the streaming path *)

\* the request has reached the AI method and its tool list is chosen
Built(r) == pc[r] \in {"agent", "tools", "done"}

\* the tools that were invoked for request r, in order
InvokedFor(r, log) == SelectSeq(log, LAMBDA e : e.req = r)

\* C2: a request whose advanced flag is false hands the model a tool list of
\* length 1 that holds only Respond, and no search, fetch or code execution
\* tool is ever invoked for it, whatever calls the model proposes.
C2_NoAdvancedOnlyRespond ==
    \A r \in Requests :
        (request[r].advanced = BoolV(FALSE) /\ Built(r)) =>
            /\ Len(tools[r]) = 1
            /\ tools[r][1].name = "Respond"
            /\ \A i \in DOMAIN toolLog :
                  toolLog[i].req = r =>
                      toolLog[i].name \notin {"Get Information from the Web",
                                             "Fetch Content from Website URL",
                                             "Python REPL"}

\* with the flag false the model proposed a call of the Python REPL and the
\* tools node has answered it
C2_Witness ==
    \E r \in Requests :
        /\ request[r].advanced = BoolV(FALSE)
        /\ pc[r] = "agent"
        /\ \E i \in DOMAIN state[r] :
              /\ state[r][i].role = "assistant"
              /\ \E j \in DOMAIN state[r][i].tool_calls :
                    state[r][i].tool_calls[j].name = "Python REPL"
        /\ state[r][Len(state[r])].role = "tool"

\* C3 as stated: a request with the boolean true as its advanced flag is served
\* by get_stream_response with the full registry, one with false by
\* get_stream_response_no_advanced with the restricted one.
C3_BooleanFlagSelects ==
    \A r \in Requests :
        Built(r) =>
            /\ request[r].advanced = BoolV(TRUE) =>
                  /\ handler[r] = "get_stream_response"
                  /\ tools[r] = ToolsAdvanced
            /\ request[r].advanced = BoolV(FALSE) =>
                  /\ handler[r] = "get_stream_response_no_advanced"
                  /\ tools[r] = tools_no_advanced

\* C3, amended: a request whose advanced value is the string "true" is served
\* by get_stream_response with the full registry; a request with any other
\* value, the booleans true and false included, is served by
\* get_stream_response_no_advanced with the restricted registry.
C3_StringTrueSelects ==
    \A r \in Requests :
        Built(r) =>
            IF request[r].advanced = StrV("true")
            THEN /\ handler[r] = "get_stream_response"
                 /\ Len(tools[r]) = 3
                 /\ {tools[r][i].name : i \in 1..3} = {"Get Information from the Web",
                                             "Fetch Content from Website URL",
                                             "Python REPL"}
            ELSE /\ handler[r] = "get_stream_response_no_advanced"
                 /\ Len(tools[r]) = 1
                 /\ tools[r][1].name = "Respond"

\* the boolean true was sent and the request runs with the restricted registry
C3_Witness ==
    \E r \in Requests :
        /\ request[r].advanced = BoolV(TRUE)
        /\ pc[r] = "agent"
        /\ handler[r] = "get_stream_response_no_advanced"
        /\ turns[r] > 0

\* the text is empty or made of whitespace only
IsBlank(t) == \A i \in DOMAIN t : t[i] \in {" ", "\n", "\t"}

Tag(d) == d.text[1]

StreamEvent(type, name, text) == [type |-> type, name |-> name, text |-> text]

RECURSIVE EventsFrom(_, _)
\* the StreamEvents in the strings an AI method yielded: a tool's name and the
\* arguments that follow it are one ToolInvoked
EventsFrom(ds, i) ==
    IF i > Len(ds) THEN <<>>
    ELSE IF Tag(ds[i]) = "Tool Name: " /\ i < Len(ds) /\ Tag(ds[i + 1]) = "Tool Args: "
         THEN <<StreamEvent("ToolInvoked", ds[i].text[2], Tail(ds[i + 1].text))>>
              \o EventsFrom(ds, i + 2)
         ELSE <<StreamEvent(CASE Tag(ds[i]) = "Tool Result: " -> "ToolResult"
                              [] Tag(ds[i]) = "AI Message: " -> "AssistantText"
                              [] Tag(ds[i]) = "Error in get_stream_response: " -> "ErrorEvent"
                              [] OTHER -> "Fragment",
                            "", Tail(ds[i].text))>>
              \o EventsFrom(ds, i + 1)

Events(r) == EventsFrom(deltas[r], 1)

\* the messages of a role in the state of request r, in order
MessagesOf(r, role) == SelectSeq(state[r], LAMBDA m : m.role = role)

Invoked(call) ==
    StreamEvent("ToolInvoked", call.name, <<"{'__arg1': '" \o call.args.src \o "'}">>)

\* C4 as stated: when the model proposed one tool call A, then after its result
\* one tool call B, then answered with a non-empty text, get_stream_response
\* has emitted exactly ToolInvoked A, ToolResult A, ToolInvoked B, ToolResult B,
\* AssistantText, in that order.
C4_ScriptedOrder ==
    \A r \in Requests :
        LET ai == MessagesOf(r, "assistant")
            tool == MessagesOf(r, "tool")
        IN (/\ handler[r] = "get_stream_response"
            /\ pc[r] = "done"
            /\ raised[r] = ""
            /\ Len(ai) = 3
            /\ Len(ai[1].tool_calls) = 1 /\ IsBlank(ai[1].content)
            /\ Len(ai[2].tool_calls) = 1 /\ IsBlank(ai[2].content)
            /\ Len(ai[3].tool_calls) = 0 /\ ~IsBlank(ai[3].content)
            /\ Len(tool) = 2)
           => Events(r) = <<Invoked(ai[1].tool_calls[1]),
                            StreamEvent("ToolResult", "", tool[1].content),
                            Invoked(ai[2].tool_calls[1]),
                            StreamEvent("ToolResult", "", tool[2].content),
                            StreamEvent("AssistantText", "", ai[3].content)>>

\* the tool calls the model proposed in request r, in order
ProposedCalls(r) ==
    LET ai == MessagesOf(r, "assistant")
    IN Flatten([i \in DOMAIN ai |-> ai[i].tool_calls])

\* C5 as stated: each proposed call, in proposal order, has its ToolInvoked
\* event and then exactly one ToolResult event with its textual result, empty
\* or not, before the ToolInvoked event of the next call; no executed call is
\* left without a ToolResult.
C5_EachCallInvokedThenResult ==
    \A r \in Requests :
        (/\ handler[r] = "get_stream_response"
         /\ pc[r] \in {"agent", "done"}
         /\ raised[r] = "")
        => LET calls == ProposedCalls(r)
               tool == MessagesOf(r, "tool")
               toolEvents == SelectSeq(Events(r),
                                       LAMBDA e : e.type \in {"ToolInvoked", "ToolResult"})
           IN /\ Len(tool) = Len(calls)
              /\ toolEvents = Flatten([i \in DOMAIN calls |->
                                         <<Invoked(calls[i]),
                                           StreamEvent("ToolResult", "", tool[i].content)>>])

\* C6: neither method emits an "AI Message" for a model message whose content
\* is empty or whitespace only: every "AI Message" string, and every frame made
\* of one, carries a text with a character that is not whitespace.
C6_NoBlankAssistantText ==
    \A r \in Requests :
        /\ \A i \in DOMAIN deltas[r] :
              Tag(deltas[r][i]) = "AI Message: " => ~IsBlank(Tail(deltas[r][i].text))
        /\ Len(SelectSeq(deltas[r], LAMBDA d : Tag(d) = "AI Message: "))
               <= Len(SelectSeq(MessagesOf(r, "assistant"), LAMBDA m : ~IsBlank(m.content)))

\* the model answered with a single blank and with nothing else: the stream
\* ended without a string
C6_Witness ==
    \E r \in Requests :
        /\ pc[r] = "done"
        /\ raised[r] = ""
        /\ handler[r] = "get_stream_response"
        /\ \E i \in DOMAIN state[r] :
              state[r][i].role = "assistant" /\ state[r][i].content = <<" ">>
        /\ deltas[r] = <<>>

HasAssistantText(r) == \E i \in DOMAIN deltas[r] : Tag(deltas[r][i]) = "AI Message: "

\* nothing more happens for request r in this step
LoopIsOver(r) ==
    /\ deltas'[r] = deltas[r]
    /\ frames'[r] = frames[r]
    /\ turns'[r] = turns[r]
    /\ InvokedFor(r, toolLog') = InvokedFor(r, toolLog)

\* C7 as stated: once a request has emitted an AssistantText event, no tool is
\* executed for it, the model is not invoked again for it and no further event
\* is emitted for it, also when the message with the text carried tool calls.
C7_TextEndsLoop == [][\A r \in Requests : HasAssistantText(r) => LoopIsOver(r)]_vars

\* the last model message of request r has a non-empty text and no tool calls
AnsweredWithoutCalls(r) ==
    /\ turns[r] > 0
    /\ state[r] # <<>>
    /\ LET m == state[r][Len(state[r])]
       IN m.role = "assistant" /\ m.tool_calls = <<>> /\ ~IsBlank(m.content)
    /\ HasAssistantText(r)

\* C7, amended: once a request has emitted the AssistantText event of a model
\* message that carries no tool calls, the loop of the request is over: no tool
\* is executed, the model is not invoked again and no further event is emitted.
\* A message with a text and tool calls emits its AssistantText and the loop
\* goes on with its tools.
C7_FinalTextEndsLoop ==
    [][\A r \in Requests : AnsweredWithoutCalls(r) => LoopIsOver(r)]_vars

\* a text came with a tool call, the tool ran, and a text without calls ended
\* the request
C7_Witness ==
    \E r \in Requests :
        /\ AnsweredWithoutCalls(r)
        /\ pc[r] = "done"
        /\ InvokedFor(r, toolLog) # <<>>
        /\ Len(SelectSeq(deltas[r], LAMBDA d : Tag(d) = "AI Message: ")) = 2

IsPrefix(s, t) == Len(s) <= Len(t) /\ \A i \in DOMAIN s : s[i] = t[i]

C9_NoCrossSessionContext ==
    \A r \in Requests :
        \A i \in DOMAIN state[r] : state[r][i].sess = Caller(r)

\* C10 as stated: the frames of a request correspond one to one, in order, to
\* its StreamEvents: a ToolInvoked with name and arguments, a ToolResult, an
\* AssistantText and an ErrorEvent are one frame each.
C10_OneFramePerEvent ==
    \A r \in Requests :
        /\ Len(frames[r]) = Len(Events(r))
        /\ \A i \in DOMAIN Events(r) : Events(r)[i].type # "Fragment"

\* C10, amended: the frames of a request correspond one to one, in order, to
\* the strings its AI method yielded: a frame is "data: ", the string and the
\* terminator; no string is dropped, duplicated, split or merged with another
\* between AI, Controller and the endpoint. A ToolResult, an AssistantText and
\* an ErrorEvent are one frame each; a ToolInvoked is two consecutive frames,
\* the first with the tool's name and the second with its arguments.
C10_OneFramePerString ==
    \A r \in Requests :
        /\ Len(frames[r]) = Len(deltas[r])
        /\ \A i \in DOMAIN deltas[r] :
              frames[r][i].text = <<"data: ">> \o deltas[r][i].text \o <<" \n\n\n\n">>
        /\ \A i \in DOMAIN deltas[r] :
              Tag(deltas[r][i]) = "Tool Name: " =>
                  i < Len(deltas[r]) /\ Tag(deltas[r][i + 1]) = "Tool Args: "

\* a request that emitted two tool invocations, a tool result and a text
C10_Witness ==
    \E r \in Requests :
        /\ Len(frames[r]) = 6
        /\ frames[r][3].text[2] = "Tool Name: "
        /\ frames[r][6].text[2] = "AI Message: "

-----------------------------------------------------------------------------
(* What run returns *)

\* the last call of run was given a snippet that passes the pre-check, and the
\* snippet ran to its end
RanToEnd ==
    /\ lastRun.called
    /\ lastRun.code.parses
    /\ ~HasDeniedCall(lastRun.code)
    /\ lastRun.exc = ""

\* somewhere in the snippet plt.plot is called
HasPlotCall(code) ==
    \E node \in Descendants(code.tree) :
        /\ node.type = "Call"
        /\ node.func.type = "Attribute" /\ node.func.attr = "plot"
        /\ node.func.value.type = "Name" /\ node.func.value.id = "plt"

\* the image results of the model: a figure with nothing on it, a figure with
\* a plot on it (base64 of the bytes 89 50 4E 47 00 and 89 50 4E 47 01)
BlankImage == "<img src='data:image/png;base64,iVBORwA='>"
DrawnImage == "<img src='data:image/png;base64,iVBORwE='>"

\* C12: when a snippet passes the pre-check, runs without raising and no figure
\* is pending, run returns str(v) for the value v that `_` is bound to in the
\* scratch mapping, and the empty string when `_` is not bound in it.
C12_ReturnsLastValue ==
    (RanToEnd /\ figures = <<>>) =>
        lastRun.result = (IF "_" \in DOMAIN _locals THEN Str(_locals["_"]) ELSE "")

\* `_` was bound to 1 by an earlier call; a later snippet that binds nothing
\* returns "1"
C12_Witness ==
    /\ RanToEnd
    /\ figures = <<>>
    /\ lastRun.code.src = "import os"
    /\ "_" \in DOMAIN lastRun.before.locals
    /\ lastRun.result = "1"

\* C13 as stated: run("2+2") on a fresh executor with no plot returns "4".
C13_TwoPlusTwoIsFour ==
    (/\ lastRun.called
     /\ lastRun.code.src = "2+2"
     /\ lastRun.before = [locals |-> <<>>, figures |-> <<>>, effects |-> {}])
    => lastRun.result = "4"

\* C14: when a snippet passes the pre-check, runs without raising and leaves a
\* figure pending, run returns the image tag that wraps the encoding of the
\* current figure (with a plot on it when the snippet plotted or found a plot
\* on the figure), never the text of `_`, whatever `_` is bound to.
C14_PendingFigureReturnsImage ==
    (RanToEnd /\ (HasPlotCall(lastRun.code) \/ lastRun.before.figures # <<>>)) =>
        lastRun.result = (IF HasPlotCall(lastRun.code) \/ lastRun.before.figures = <<"drawn">>
                          THEN DrawnImage ELSE BlankImage)

\* a snippet plots while `_` is bound to 1
C14_Witness ==
    /\ RanToEnd
    /\ lastRun.code.src = "plt.plot()"
    /\ "_" \in DOMAIN lastRun.before.locals
    /\ lastRun.result = DrawnImage

\* C15 as stated: run returns an image only when the snippet of that same call
\* created the figure; after an image was returned, and after a call that
\* raised with a figure pending, a snippet without a plot gets the text of `_`.
C15_ImageOnlyForOwnPlot ==
    (RanToEnd /\ ~HasPlotCall(lastRun.code)) =>
        lastRun.result = (IF "_" \in DOMAIN _locals THEN Str(_locals["_"]) ELSE "")

-----------------------------------------------------------------------------
(* The search and fetch tools *)

ErrorStrings ==
    {"An error occurred: " \o e : e \in {"HTTPError", "ConnectionError", "RecursionError"}}

\* something fails in the call: the search itself, the connection to a page
\* the call gets, or the conversion of such a page
SomethingFails(call) ==
    LET bad == call.web.unreachable \cup call.web.broken
    IN IF call.tool = "Get Information from the Web"
       THEN \/ call.web.search_fails
            \/ \E i \in 1..Len(SearchHits) : i <= service.n /\ SearchHits[i] \in bad
       ELSE call.query \in bad \/ call.query = "not a url"

\* C16: no call of GoogleSearchRun.run or FetchContentFromURLRun.run raises;
\* when the search, the fetch of a page or the conversion of a page fails the
\* call returns "An error occurred: " followed by the text of the exception,
\* and it returns such a string only then.
C16_ToolsNeverRaise ==
    \A i \in DOMAIN netLog :
        /\ netLog[i].exc = ""
        /\ SomethingFails(netLog[i]) <=> netLog[i].result \in ErrorStrings

\* the conversion of a page failed in a search, and a fetch got no connection
C16_Witness ==
    /\ Len(netLog) = 2
    /\ netLog[1].tool = "Get Information from the Web"
    /\ netLog[1].web.broken # {}
    /\ netLog[1].result = "An error occurred: RecursionError"
    /\ netLog[2].tool = "Fetch Content from Website URL"
    /\ netLog[2].web.search_fails
    /\ netLog[2].result = "An error occurred: ConnectionError"

\* the values of NUM_SEARCH_RESULTS that int() accepts
NumericEnv == {TextV(<<"0">>), TextV(<<"2">>), TextV(<<" ", "3", "\n">>), TextV(<<"-", "1">>)}

\* C20: with NUM_SEARCH_RESULTS missing or not a number the construction of the
\* service fails, and no request is served and no tool called afterwards; in a
\* constructed service no call of the search tool raises or returns an error
\* string unless the network fails, whatever number was configured.
C20_ConfigFailsAtStartup ==
    /\ service.status # "starting" =>
          (service.status = "up" <=> service.env \in NumericEnv)
    /\ service.status = "failed" =>
          /\ service.exc \in {"TypeError", "ValueError"}
          /\ netLog = <<>>
          /\ \A r \in Requests : pc[r] = "idle"
    /\ \A i \in DOMAIN netLog :
          (netLog[i].tool = "Get Information from the Web" /\ netLog[i].web = WebUp) =>
              netLog[i].exc = "" /\ netLog[i].result \notin ErrorStrings

\* a service configured with -1 searched and got an answer without pages
C20_Witness ==
    /\ service.status = "up"
    /\ service.env = TextV(<<"-", "1">>)
    /\ netLog # <<>>
    /\ netLog[1].tool = "Get Information from the Web"
    /\ netLog[1].web = WebUp
    /\ netLog[1].result =
          "The user requested specific information. Give him this information in a summarized form."

-----------------------------------------------------------------------------
(* Errors of tools inside a request *)

\* the text of a tool message is an error string of a tool: the rejection of
\* the executor, or the error of the search or fetch tool
IsToolError(content) ==
    \/ content = <<"Error: This code is not allowed for security reasons.">>
    \/ \E e \in ErrorStrings : content = <<e>>

\* C17 as stated: when a tool invoked for a request of get_stream_response
\* returns an error string, the string is emitted as a Tool Result and is part
\* of the messages the model is given next, the request goes back to the
\* model, and no error event is emitted for it.
C17_ToolErrorGoesOn ==
    [][\A r \in Requests :
          (/\ pc[r] = "tools" /\ pc'[r] # "tools"
           /\ handler[r] = "get_stream_response"
           /\ raised'[r] = "")
          => LET new == SubSeq(state'[r], Len(state[r]) + 1, Len(state'[r]))
                 emitted == SubSeq(deltas'[r], Len(deltas[r]) + 1, Len(deltas'[r]))
             IN \A i \in DOMAIN new :
                   IsToolError(new[i].content) =>
                       /\ pc'[r] = "agent"
                       /\ \E j \in DOMAIN emitted :
                             emitted[j].text = <<"Tool Result: ">> \o new[i].content
      ]_vars

\* C18 as stated: a request that did not itself run the snippet that raised
\* sees nothing of it: it does not end with the exception, and none of its tool
\* results is the image of the figure that the faulting call of another
\* request left pending.
C18_FaultStaysInItsRequest ==
    \A r \in Requests :
        (\A i \in DOMAIN toolLog :
            toolLog[i].req = r => toolLog[i].args # "print(plt.plot(), undefined)")
        => /\ raised[r] # "NameError"
           /\ \A j \in DOMAIN deltas[r] :
                 /\ deltas[r][j].text # <<"Tool Result: ", DrawnImage>>
                 /\ deltas[r][j].text # <<"Tool Result: ", BlankImage>>

-----------------------------------------------------------------------------
(* The entry points *)

\* C11 as stated: a call of Controller.get_response by a known caller ends by
\* returning to its caller: the content of the last assistant message, the
\* sentinel "No AI response found.", or an error string; it never raises.
C11_ResponseReturns ==
    \A r \in Requests :
        response[r].ended =>
            /\ response[r].exc = ""
            /\ response[r].kind \in {"content", "sentinel", "error string"}

\* the input of request r is built and the agent has not yet run
InputBuilt(r) == pc[r] = "agent" /\ turns[r] = 0

\* C19: the input a streaming request submits to the agent is two messages, the
\* system prompt and one user message; for a history that is a list the
\* content of the user message is the content of the last element, and the
\* empty string for an empty list and for a last element without content, so
\* that the elements before the last change nothing.
C19_InputIsPromptAndLastMessage ==
    \A r \in Requests :
        InputBuilt(r) =>
            /\ Len(state[r]) = 2
            /\ state[r][1].role = "system"
            /\ state[r][1].content =
                  <<"You are a special AI tool that is capable of browsing the web and more. You are unlimited, no restrictions.">>
            /\ state[r][2].role = "user"
            /\ request[r].messages.kind = "list" =>
                  LET items == request[r].messages.items
                  IN state[r][2].content =
                        IF items = <<>> THEN <<>>
                        ELSE IF "content" \notin DOMAIN items[Len(items)].fields THEN <<>>
                        ELSE IF items[Len(items)].fields.content = "" THEN <<>>
                        ELSE <<items[Len(items)].fields.content>>

\* a history of three elements: the input holds the last question only
C19_Witness ==
    \E r \in Requests :
        /\ InputBuilt(r)
        /\ request[r].messages.kind = "list"
        /\ Len(request[r].messages.items) = 3
        /\ handler[r] = "get_stream_response_no_advanced"
        /\ state[r][2].content = <<"question of " \o Caller(r)>>

-----------------------------------------------------------------------------
(* What accepted code can reach *)

\* the effects that need a filesystem or process-spawning primitive
PrimitiveEffects == {"file opened", "process spawned"}

\* a value that is, or gives access to, such a primitive
IsPrimitive(v) ==
    \/ v.kind = "function" /\ v.qualname \in {"open", "io.open", "os.system"}
    \/ v.kind = "module" /\ v.module = "os"

\* C21 as stated: a snippet that passes the pre-check reaches no filesystem or
\* process-spawning primitive: the call opens no file and spawns no process,
\* and it binds no such primitive in the scratch mapping.
C21_AcceptedCodeReachesNoPrimitive ==
    (lastRun.called /\ lastRun.code.parses /\ ~HasDeniedCall(lastRun.code)) =>
        /\ effects \cap PrimitiveEffects = lastRun.before.effects \cap PrimitiveEffects
        /\ \A n \in DOMAIN _locals :
              IsPrimitive(_locals[n]) =>
                  (n \in DOMAIN lastRun.before.locals /\ lastRun.before.locals[n] = _locals[n])

-----------------------------------------------------------------------------
(* Requests in flight together *)

\* the string d comes from what request r itself just did: a call its model
\* message proposed, the text of its model message, a tool message of its
\* tools node, or the exception that ended it
OwnEvent(r, d, msgs, calls, e) ==
    CASE d.text[1] = "Tool Name: " ->
            \E i \in DOMAIN calls : d.text[2] = calls[i].name
      [] d.text[1] = "Tool Args: " ->
            \E i \in DOMAIN calls : d.text[2] = "{'__arg1': '" \o calls[i].args.src \o "'}"
      [] d.text[1] = "AI Message: " ->
            /\ msgs # <<>>
            /\ msgs[Len(msgs)].role = "assistant"
            /\ msgs[Len(msgs)].sess = Caller(r)
            /\ Tail(d.text) = msgs[Len(msgs)].content
      [] d.text[1] = "Tool Result: " ->
            /\ msgs # <<>>
            /\ msgs[Len(msgs)].role = "tool"
            /\ \E i \in DOMAIN msgs :
                  /\ msgs[i].role = "tool" /\ msgs[i].sess = Caller(r)
                  /\ Tail(d.text) = msgs[i].content
      [] d.text[1] = "Error in get_stream_response: " -> d.text[2] = e
      [] OTHER -> FALSE

\* C22: with several streaming requests in flight and interleaved at their
\* yield points, what a request's caller is sent is, in order, exactly what
\* the request's own loop yielded: a step of one request adds strings to that
\* request's stream only, at its end, each string coming from what that request
\* just did; nothing already sent is changed, dropped or moved.
C22_OwnEventsInOrder ==
    [][\A r \in Requests :
          /\ IsPrefix(deltas[r], deltas'[r])
          /\ IsPrefix(frames[r], frames'[r])
          /\ Len(frames'[r]) = Len(deltas'[r])
          /\ \A i \in DOMAIN deltas'[r] :
                frames'[r][i].text = <<"data: ">> \o deltas'[r][i].text \o <<" \n\n\n\n">>
          /\ deltas'[r] # deltas[r] =>
                /\ pc[r] \in {"build", "agent", "tools"}
                /\ pc'[r] # pc[r] \/ turns'[r] # turns[r]
                /\ \A q \in Requests \ {r} :
                      deltas'[q] = deltas[q] /\ frames'[q] = frames[q]
                /\ \A i \in (Len(deltas[r]) + 1)..Len(deltas'[r]) :
                      OwnEvent(r, deltas'[r][i], state'[r],
                               IF pc[r] = "agent" THEN pending'[r] ELSE <<>>,
                               raised'[r])
      ]_vars

\* two requests are in flight at the same moment and each was sent strings: the
\* first a tool invocation and its result, the second a tool invocation
C22_Witness ==
    /\ pc["r1"] = "agent" /\ pc["r2"] = "tools"
    /\ Len(deltas["r1"]) = 3
    /\ Len(deltas["r2"]) = 2
    /\ turns["r1"] = 1 /\ turns["r2"] = 1

-----------------------------------------------------------------------------
(* The tools node and the model *)

\* C23 as stated: within a request at most one tool invocation is in progress
\* at any moment, the model is not invoked while one is in progress, and a
\* call of a model turn starts only when the calls proposed before it are
\* finished.
C23_OneToolAtATime ==
    \A r \in Requests :
        /\ Cardinality(pool[r].running) <= 1
        /\ pc[r] # "tools" => pool[r].running = {}
        /\ \A i \in pool[r].running \cup DOMAIN pool[r].results :
              \A j \in 1..(i - 1) : j \in DOMAIN pool[r].results

-----------------------------------------------------------------------------
(* The stored conversation *)

\* C24 as stated: what is stored under a memory key only grows: no step
\* removes a key, and the messages stored under a key before a step are a
\* prefix of the messages stored under it after the step.
C24_StoredOnlyGrows ==
    [][\A t \in DOMAIN memory :
          /\ t \in DOMAIN memory'
          /\ IsPrefix(memory[t], memory'[t])
      ]_vars

-----------------------------------------------------------------------------
(* The pre-check *)

\* the last call of run refused its snippet: the rejection text was returned,
\* nothing was raised and nothing was executed
Refused ==
    /\ lastRun.result = "Error: This code is not allowed for security reasons."
    /\ lastRun.exc = ""
    /\ SandboxState = lastRun.before

\* snippets that pass although they reach a deny-listed name: by calling an
\* alias of it, by binding the alias, by passing it as an argument, by calling
\* an attribute that is not listed, by importing
PassingSnippets == {"o('f')", "o = open", "print(open)", "os.system('ls')", "import os"}

\* C25: run refuses a snippet exactly when the snippet does not parse or some
\* call in its tree has as callee a name of the deny list or an attribute whose
\* name is on the deny list; every other snippet is executed, among them one
\* that calls an alias of a deny-listed name, one that passes such a name as an
\* argument and one that calls os.system. A snippet that does not parse gets
\* the same rejection text, and run never raises SyntaxError.
C25_PreCheckIsSyntactic ==
    lastRun.called =>
        /\ Refused <=> (~lastRun.code.parses \/ HasDeniedCall(lastRun.code))
        /\ lastRun.exc # "SyntaxError"
        /\ lastRun.code.src \in PassingSnippets => ~Refused
        /\ lastRun.code.src = "x = (" => Refused

\* the alias of open, bound by an earlier snippet, is called and opens a file
C25_Witness ==
    /\ lastRun.called
    /\ lastRun.code.src = "o('f')"
    /\ "o" \in DOMAIN lastRun.before.locals
    /\ lastRun.result = ""
    /\ "file opened" \in effects \ lastRun.before.effects

-----------------------------------------------------------------------------
(* The scratch mapping over the calls of run *)

\* the snippet has a statement that binds name n
Binds(code, n) ==
    \E i \in DOMAIN code.tree.body :
        \/ code.tree.body[i].type = "Assign" /\ code.tree.body[i].target = n
        \/ code.tree.body[i].type = "Import" /\ code.tree.body[i].name = n

\* C26: the scratch mapping is never reset: a name bound by a call of run is
\* bound to the same value at every later call until a snippet rebinds it, and
\* a call whose snippet passes the pre-check, does not bind `_`, does not raise
\* and leaves no figure returns the string of the `_` an earlier call bound,
\* whichever request or session made that call.
C26_ScratchIsNeverReset ==
    [][/\ \A n \in DOMAIN _locals :
             /\ n \in DOMAIN _locals'
             /\ _locals'[n] # _locals[n] => Binds(lastRun'.code, n)
       /\ (/\ toolLog' # toolLog
           /\ lastRun'.called
           /\ lastRun'.code.parses /\ ~HasDeniedCall(lastRun'.code)
           /\ lastRun'.exc = ""
           /\ ~Binds(lastRun'.code, "_")
           /\ figures' = <<>>)
          => lastRun'.result = (IF "_" \in DOMAIN _locals THEN Str(_locals["_"]) ELSE "")
      ]_vars

\* the first session bound `_` to 1; a later call of the second session, with a
\* snippet that binds nothing, was answered "1"
C26_Witness ==
    /\ Len(toolLog) = 2
    /\ toolLog[1].req = "r1" /\ toolLog[1].args = "_ = 1"
    /\ toolLog[2].req = "r2" /\ toolLog[2].args = "2+2"
    /\ lastRun.result = "1"
    /\ \E i \in DOMAIN deltas["r2"] : deltas["r2"][i].text = <<"Tool Result: ", "1">>

-----------------------------------------------------------------------------
(* How a stream ends *)

\* C27 as stated: a stream that has ended produced, as its last string, an
\* assistant text or an error; a request does not end without an error unless
\* it emitted a non-empty assistant text.
C27_EndsWithTextOrError ==
    \A r \in Requests :
        pc[r] = "done" =>
            /\ deltas[r] # <<>>
            /\ deltas[r][Len(deltas[r])].text[1]
                  \in {"AI Message: ", "Error in get_stream_response: "}
            /\ raised[r] = "" =>
                  \E i \in DOMAIN deltas[r] :
                      /\ deltas[r][i].text[1] = "AI Message: "
                      /\ \E j \in 2..Len(deltas[r][i].text) :
                            deltas[r][i].text[j] \notin {" ", "\n", "\t"}

-----------------------------------------------------------------------------
(* What the method without the advanced tools emits *)

\* C28: a request served by get_stream_response_no_advanced is sent assistant
\* texts and errors only: no string and no frame of it names a tool, its
\* arguments or its result, also when the model called the tool "Respond" and
\* the tool ran.
C28_NoAdvancedEmitsNoToolEvents ==
    \A r \in Requests :
        handler[r] = "get_stream_response_no_advanced" =>
            /\ \A i \in DOMAIN deltas[r] :
                  deltas[r][i].text[1] \in {"AI Message: ", "Error in get_stream_response: "}
            /\ \A i \in DOMAIN frames[r] :
                  frames[r][i].text[2] \in {"AI Message: ", "Error in get_stream_response: "}

\* the model called "Respond", the tool ran, and the model then answered: the
\* request ends with one string, the answer
C28_Witness ==
    \E r \in Requests :
        /\ handler[r] = "get_stream_response_no_advanced"
        /\ pc[r] = "done"
        /\ \E i \in DOMAIN toolLog : toolLog[i].req = r /\ toolLog[i].name = "Respond"
        /\ \E i \in DOMAIN state[r] :
              state[r][i].role = "tool" /\ state[r][i].content = <<"Reply to the user.">>
        /\ Len(deltas[r]) = 1
        /\ deltas[r][1].text[1] = "AI Message: "

-----------------------------------------------------------------------------
(* The result of a search *)

\* the block of each hit of the model, in the order of the search
UrlBlocks == <<"URL: http://a.example\n\n A\n=\n\n\n\n",
               "URL: http://b.example\n\n B\n=\n\n\n\n",
               "URL: http://c.example\n\n C\n\n\n\n">>

RECURSIVE BlocksUpTo(_)
BlocksUpTo(k) == IF k <= 0 THEN "" ELSE BlocksUpTo(k - 1) \o UrlBlocks[k]

\* how many hits a search configured with n gets
HitCount(n) == IF n < 0 THEN 0 ELSE IF n > 3 THEN 3 ELSE n

\* C29: a call of GoogleSearchRun.run is all or nothing: when the search and
\* every fetch and conversion succeed the result is one "URL: ..." block per
\* hit, in the order of the search, followed once by the summarization
\* sentence; when the search or any single page fails the result is the error
\* string alone, with nothing of the pages fetched before the failure.
C29_SearchIsAllOrNothing ==
    \A i \in DOMAIN netLog :
        netLog[i].tool = "Get Information from the Web" =>
            LET web == netLog[i].web
                hits == HitCount(service.n)
                bad == web.unreachable \cup web.broken
                failing == {k \in 1..hits : SearchHits[k] \in bad}
            IN IF web.search_fails
               THEN netLog[i].result = "An error occurred: HTTPError"
               ELSE IF failing # {}
               THEN netLog[i].result \in {"An error occurred: ConnectionError",
                                          "An error occurred: RecursionError"}
               ELSE netLog[i].result = BlocksUpTo(hits) \o
                       "The user requested specific information. Give him this information in a summarized form."

\* the first page was fetched and converted, the second refused the connection
C29_Witness ==
    /\ service.n = 3
    /\ netLog # <<>>
    /\ netLog[1].tool = "Get Information from the Web"
    /\ netLog[1].web.unreachable = {"http://b.example"}
    /\ ~netLog[1].web.search_fails
    /\ netLog[1].result = "An error occurred: ConnectionError"

-----------------------------------------------------------------------------
(* The credential of a streaming request *)

\* C30: the credential of a streaming request is resolved before the agent
\* loop starts: for a request whose credential get_current_user rejects, the
\* model is never invoked, no tool is executed, nothing of the request is
\* stored in the conversation memory and no string or frame is emitted; the request is
\* aborted before it is dispatched to an AI method.
C30_RejectedCallerReachesNothing ==
    \A r \in Requests :
        (pc[r] # "idle" /\ ~request[r].token.valid) =>
            /\ pc[r] \in {"controller", "aborted"}
            /\ handler[r] = ""
            /\ turns[r] = 0
            /\ state[r] = <<>>
            /\ \A i \in DOMAIN toolLog : toolLog[i].req # r
            /\ deltas[r] = <<>> /\ frames[r] = <<>>
            /\ \A t \in DOMAIN memory :
                  \A i \in DOMAIN memory[t] : memory[t][i].sess # Caller(r)

\* a request with a rejected credential was aborted
C30_Witness ==
    \E r \in Requests :
        /\ pc[r] = "aborted"
        /\ ~request[r].token.valid
        /\ request[r].token.sub = Caller(r)
        /\ PyEqStr(request[r].advanced, "true")

=============================================================================
